---- MODULE Spec2Model ----
(***************************************************************************)
(* The Kakao login flow of yeogida-backend (users/api.py,                  *)
(* kakao_login_process) over the Account Store (users/models.py,           *)
(* CustomUser), with the admin site as the other writer of the store.      *)
(*                                                                         *)
(* A login request is a process with the positions                         *)
(*   idle -> token -> profile -> done -> idle                              *)
(* token:   the token request to kauth.kakao.com has answered              *)
(* profile: the profile request has answered and the response is parsed    *)
(* done:    the handler has returned (or raised); the response is in resp  *)
(* The handler touches the store only in the step profile -> done.         *)
(*                                                                         *)
(* The other parts of the api have specifications of their own over their  *)
(* own variables:                                                          *)
(*   SpecLikes      the like and unlike requests on carpools and reviews   *)
(*   SpecApi        the lists of carpools, reviews and rankings, the       *)
(*                  routes of the api                                      *)
(*   SpecWrites     the writes of carpools, reviews and review comments    *)
(*   SpecNormalize  the parsing of one profile response                    *)
(***************************************************************************)
EXTENDS Integers, Sequences, FiniteSets, TLC

\* Provider user ids are 1..MaxKakaoId.
MaxKakaoId == 2
\* Login requests that can be in flight at once.
MaxInFlight == 2

\* The login flow: the Account Store and the login requests.
VARIABLES store, req
\* The like counters: the likes column of the carpool and review rows, the
\* like and unlike requests, and how many of each have finished.
VARIABLES likes, likeReq, applied
\* The collections: the carpool, review and review-comment rows, and the
\* answer to the last collection request.
VARIABLES carpools, reviews, comments, answer
\* The profile response of the provider as it arrived.
VARIABLE user_info_response

loginVars == <<store, req>>
likeVars == <<likes, likeReq, applied>>
apiVars == <<carpools, reviews, comments, answer>>
vars == <<store, req, likes, likeReq, applied, carpools, reviews, comments, answer,
          user_info_response>>

Slots == 1..MaxInFlight

---------------------------------------------------------------------------
\* Python values, as far as the handler tells them apart.

None == [t |-> "none", n |-> 0, s |-> ""]

\* A key that a JSON object does not carry.
Absent == [t |-> "absent", n |-> 0, s |-> ""]

PyStr(s) == [t |-> "str", n |-> 0, s |-> s]

PyInt(n) == [t |-> "int", n |-> n, s |-> ""]

PyBool(b) == [t |-> "bool", n |-> IF b THEN 1 ELSE 0, s |-> ""]

\* Truth value of a Python object: None, "", 0 and False are false.
Truthy(v) ==
    CASE v.t = "none" -> FALSE
      [] v.t = "str" -> v.s # ""
      [] v.t = "int" -> v.n # 0
      [] v.t = "bool" -> v.n = 1
      [] OTHER -> FALSE

\* dict.get(key, default)
Get(d, key, default) == IF d[key] = Absent THEN default ELSE d[key]

Digit(d) ==
    CASE d = 0 -> "0" [] d = 1 -> "1" [] d = 2 -> "2" [] d = 3 -> "3"
      [] d = 4 -> "4" [] d = 5 -> "5" [] d = 6 -> "6" [] d = 7 -> "7"
      [] d = 8 -> "8" [] d = 9 -> "9"

RECURSIVE IntToStr(_)
IntToStr(n) == IF n < 10 THEN Digit(n) ELSE IntToStr(n \div 10) \o Digit(n % 10)

\* str(v)
Str(v) ==
    CASE v.t = "none" -> "None"
      [] v.t = "str" -> v.s
      [] v.t = "int" -> IntToStr(v.n)
      [] v.t = "bool" -> IF v.n = 1 THEN "True" ELSE "False"

---------------------------------------------------------------------------
\* The Account Store: the rows of CustomUser.

\* Field names a CustomUser query or constructor keyword can resolve to.
CustomUserFields ==
    {"id", "nickname", "profile_image_url", "name", "email", "level",
     "review_count", "like_count", "badge", "is_active", "is_staff",
     "password", "last_login", "is_superuser", "groups", "user_permissions"}

Nicknames == {PyStr("Jo"), PyStr("Al")}

Emails == {PyStr("a@x")}

ImageUrls == {PyStr("u1")}

AccountIds == {IntToStr(n) : n \in 1..MaxKakaoId}

\* The constraints of the table: id is the primary key, email is unique
\* when it is not NULL.
UniqueOk(rows) ==
    \A u, w \in rows :
        u # w => /\ u.id # w.id
                 /\ (u.email # None => u.email # w.email)

NoUser ==
    [id |-> "", nickname |-> None, email |-> None,
     profile_image_url |-> None, is_active |-> FALSE]

\* A model method's outcome: the rows afterwards, the exception raised
\* ("" when none) and the instance returned.
Outcome(objects, raised, user) ==
    [objects |-> objects, raised |-> raised, user |-> user]

\* CustomUser.objects.get(<keyword>=value): the keyword must name a field of
\* the model (or pk); it is resolved before any row is read.
get(objects, keyword, value) ==
    IF keyword \notin CustomUserFields \cup {"pk"}
    THEN Outcome(objects, "FieldError", NoUser)
    ELSE LET column == IF keyword = "pk" THEN "id" ELSE keyword
             found == {u \in objects : u[column] = value}
         IN  IF found = {}
             THEN Outcome(objects, "DoesNotExist", NoUser)
             ELSE IF Cardinality(found) > 1
             THEN Outcome(objects, "MultipleObjectsReturned", NoUser)
             ELSE Outcome(objects, "", CHOOSE u \in found : TRUE)

\* CustomUser.objects.filter(email=email).exists()
email_exists(objects, email) == \E u \in objects : u.email = email

\* Model.save(): the row with the instance's primary key is updated, or
\* inserted when there is none; the unique constraints decide whether the
\* write goes through.
save(objects, user) ==
    LET rows == {u \in objects : u.id # user.id} \cup {user}
    IN  IF UniqueOk(rows)
        THEN Outcome(rows, "", user)
        ELSE Outcome(objects, "IntegrityError", user)

\* CustomUserManager.create_user(self, id, nickname, password=None,
\* **extra_fields), called with the keyword arguments kw.
create_user(objects, kw) ==
    IF ~({"id", "nickname"} \subseteq DOMAIN kw)
    THEN Outcome(objects, "TypeError", NoUser)
    ELSE IF kw.id = ""
    THEN Outcome(objects, "ValueError", NoUser)
    ELSE IF ~Truthy(kw.nickname)
    THEN Outcome(objects, "ValueError", NoUser)
    ELSE IF ~(DOMAIN kw \subseteq CustomUserFields)
    THEN Outcome(objects, "TypeError", NoUser)
    ELSE save(objects,
              [id |-> kw.id,
               nickname |-> kw.nickname,
               email |-> IF "email" \in DOMAIN kw THEN kw.email ELSE None,
               profile_image_url |->
                   IF "profile_image_url" \in DOMAIN kw
                   THEN kw.profile_image_url ELSE None,
               is_active |-> TRUE])

---------------------------------------------------------------------------
\* The provider's profile response (GET /v2/user/me), flattened:
\* id, kakao_account.{has_email, email_needs_agreement, email,
\* profile_needs_agreement}, kakao_account.profile.{nickname,
\* profile_image_url}.

Flags == {Absent, PyBool(TRUE), PyBool(FALSE)}

UserInfos ==
    [id : {Absent, PyStr("")} \cup {PyInt(n) : n \in 1..MaxKakaoId},
     has_email : {PyBool(TRUE), PyBool(FALSE)},
     email_needs_agreement : Flags,
     email : {Absent} \cup Emails,
     profile_needs_agreement : Flags,
     nickname : {Absent, PyStr("Jo")},
     profile_image_url : {Absent} \cup ImageUrls]

\* The handler's locals after parsing: kakao_id, email, nickname,
\* profile_image_url; id is user_info.get("id") (Absent: no profile response
\* was received).
NoInfo ==
    [id |-> Absent, kakao_id |-> "", email |-> None, nickname |-> None,
     profile_image_url |-> None]

parse_kakao_id(user_info) ==
    [NoInfo EXCEPT !.id = Get(user_info, "id", None),
                   !.kakao_id = Str(Get(user_info, "id", None))]

\* A variant of parse_user_info: a consent flag that is missing counts as
\* consent given.
parse_user_info_missing_flag_granted(user_info) ==
    LET email_ok ==
            /\ Truthy(Get(user_info, "has_email", None))
            /\ ~Truthy(Get(user_info, "email_needs_agreement", PyBool(FALSE)))
        profile_ok ==
            ~Truthy(Get(user_info, "profile_needs_agreement", PyBool(FALSE)))
    IN  [id |-> Get(user_info, "id", None),
         kakao_id |-> Str(Get(user_info, "id", None)),
         email |-> IF email_ok THEN Get(user_info, "email", None) ELSE None,
         nickname |->
             IF profile_ok THEN Get(user_info, "nickname", None) ELSE None,
         profile_image_url |->
             IF profile_ok THEN Get(user_info, "profile_image_url", None)
             ELSE None]

parse_user_info(user_info) ==
    LET email_ok ==
            /\ Truthy(Get(user_info, "has_email", None))
            /\ ~Truthy(Get(user_info, "email_needs_agreement", PyBool(TRUE)))
        profile_ok ==
            ~Truthy(Get(user_info, "profile_needs_agreement", PyBool(TRUE)))
    IN  [id |-> Get(user_info, "id", None),
         kakao_id |-> Str(Get(user_info, "id", None)),
         email |-> IF email_ok THEN Get(user_info, "email", None) ELSE None,
         nickname |->
             IF profile_ok THEN Get(user_info, "nickname", None) ELSE None,
         profile_image_url |->
             IF profile_ok THEN Get(user_info, "profile_image_url", None)
             ELSE None]

---------------------------------------------------------------------------
\* Responses of the login endpoint.  detail: the body is an ErrorDetail;
\* sub: the subject of the token pair ("" when none was issued).

NoResp == [status |-> 0, kind |-> "", exc |-> "", detail |-> FALSE, sub |-> ""]

Error(status, kind) == [NoResp EXCEPT !.status = status, !.kind = kind, !.detail = TRUE]

\* An exception that leaves the handler: the framework answers 500.
Unhandled(exc) == [NoResp EXCEPT !.status = 500, !.kind = "Unhandled", !.exc = exc]

\* RefreshToken.for_user(user): the pair's subject is the user's id.
for_user(user) == [NoResp EXCEPT !.status = 200, !.kind = "Tokens", !.sub = user.id]

---------------------------------------------------------------------------
\* kakao_login_process, from the user lookup on.

\* What the handler has after its find-or-create block: the rows, an
\* exception that left the block ("" when none), a response returned inside
\* the block (NoResp when none) and the local variable user.
Found(objects, raised, resp, user) ==
    [objects |-> objects, raised |-> raised, resp |-> resp, user |-> user]

\* The existing-user branch: the fields the login changes on the instance,
\* in the order of the code, and fields_to_update.
update_existing(user, p) ==
    LET e == Truthy(p.email) /\ user.email # p.email
        n == Truthy(p.nickname) /\ user.nickname # p.nickname
        i == Truthy(p.profile_image_url)
             /\ user.profile_image_url # p.profile_image_url
        a == ~user.is_active
    IN  [user |->
             [id |-> user.id,
              email |-> IF e THEN p.email ELSE user.email,
              nickname |-> IF n THEN p.nickname ELSE user.nickname,
              profile_image_url |->
                  IF i THEN p.profile_image_url ELSE user.profile_image_url,
              is_active |-> TRUE],
         fields_to_update |->
             (IF e THEN {"email"} ELSE {}) \cup
             (IF n THEN {"nickname"} ELSE {}) \cup
             (IF i THEN {"profile_image_url"} ELSE {}) \cup
             (IF a THEN {"is_active"} ELSE {})]

\* The keyword arguments of the create_user call.
create_user_kwargs(p) ==
    [username |-> "kakao_" \o p.kakao_id,
     email |-> p.email,
     nickname |-> p.nickname,
     profile_image_url |-> p.profile_image_url,
     kakao_id |-> p.kakao_id]

\* The new-user branch (except CustomUser.DoesNotExist).
create_branch(objects, p) ==
    IF Truthy(p.email) /\ email_exists(objects, p.email)
    THEN Found(objects, "", Error(400, "DuplicateEmail"), NoUser)
    ELSE LET c == create_user(objects, create_user_kwargs(p))
         IN  IF c.raised # ""
             THEN Found(objects, "", [Error(500, "CreateError") EXCEPT !.exc = c.raised], NoUser)
             ELSE Found(c.objects, "", NoResp, c.user)

\* if fields_to_update: user.save(update_fields=fields_to_update)
save_existing(objects, upd) ==
    LET w == save(objects, upd.user)
    IN  IF upd.fields_to_update = {}
        THEN Found(objects, "", NoResp, upd.user)
        ELSE IF w.raised # ""
        THEN Found(objects, w.raised, NoResp, NoUser)
        ELSE Found(w.objects, "", NoResp, upd.user)

\* A variant of update_existing: the email is assigned without the test
\* that the provider supplied one.
update_existing_blanking(user, p) ==
    LET upd == update_existing(user, p)
        e == user.email # p.email
    IN  [user |-> [upd.user EXCEPT !.email = p.email],
         fields_to_update |->
             (upd.fields_to_update \ {"email"}) \cup (IF e THEN {"email"} ELSE {})]

\* A variant of update_existing: the account is not reactivated.
update_existing_no_reactivate(user, p) ==
    LET upd == update_existing(user, p)
    IN  [user |-> [upd.user EXCEPT !.is_active = user.is_active],
         fields_to_update |-> upd.fields_to_update \ {"is_active"}]

\* Variants of find_or_create: the lookup is by primary key, and the
\* existing-user branch is one of the variants above.
find_or_create_blanking(objects, p) ==
    LET g == get(objects, "id", p.kakao_id)
    IN  CASE g.raised = "DoesNotExist" -> create_branch(objects, p)
          [] g.raised = "" ->
                save_existing(objects, update_existing_blanking(g.user, p))
          [] OTHER -> Found(objects, g.raised, NoResp, NoUser)

find_or_create_no_reactivate(objects, p) ==
    LET g == get(objects, "id", p.kakao_id)
    IN  CASE g.raised = "DoesNotExist" -> create_branch(objects, p)
          [] g.raised = "" ->
                save_existing(objects, update_existing_no_reactivate(g.user, p))
          [] OTHER -> Found(objects, g.raised, NoResp, NoUser)

\* try: user = CustomUser.objects.get(kakao_id=kakao_id) ... except
\* CustomUser.DoesNotExist: ...
find_or_create(objects, p) ==
    LET g == get(objects, "kakao_id", p.kakao_id)
    IN  CASE g.raised = "DoesNotExist" -> create_branch(objects, p)
          [] g.raised = "" -> save_existing(objects, update_existing(g.user, p))
          [] OTHER -> Found(objects, g.raised, NoResp, NoUser)

\* The handler from the lookup to its return: the rows afterwards and the
\* response.
login_from_lookup(objects, p) ==
    LET f == find_or_create(objects, p)
    IN  IF f.raised # ""
        THEN [objects |-> f.objects, resp |-> Unhandled(f.raised)]
        ELSE IF f.resp # NoResp
        THEN [objects |-> f.objects, resp |-> f.resp]
        ELSE IF ~f.user.is_active
        THEN [objects |-> f.objects, resp |-> Error(403, "AccountDisabled")]
        ELSE [objects |-> f.objects, resp |-> for_user(f.user)]

\* The status the handler returns for a RequestException of the token
\* request: the provider's status when it is a 4xx, else 400 (0: no
\* response at all).
token_error_status(provider_status) ==
    LET status_code_to_return ==
            IF provider_status # 0
            THEN IF provider_status >= 400 THEN provider_status ELSE 400
            ELSE 400
    IN  IF status_code_to_return < 500 THEN status_code_to_return ELSE 400

ProviderStatuses == {0, 401, 500}

---------------------------------------------------------------------------
\* The like counters (carpools/api.py and reviews/api.py).

\* Like and unlike requests issued in a run.
MaxLikeRequests == 3

\* One carpool row and one review row.
LikeTargets == {"carpool", "review"}

\* What a handler does with the instance it loaded: the likes attribute
\* afterwards, whether save() is called, and the message of the answer.
like_carpool(carpool_likes) ==
    [likes |-> carpool_likes + 1, save |-> TRUE, message |-> ""]

\* A variant of unlike_carpool: the decrement without the test.
unlike_carpool_unclamped(carpool_likes) ==
    [likes |-> carpool_likes - 1, save |-> TRUE, message |-> ""]

unlike_carpool(carpool_likes) ==
    IF carpool_likes > 0
    THEN [likes |-> carpool_likes - 1, save |-> TRUE, message |-> ""]
    ELSE [likes |-> carpool_likes, save |-> FALSE, message |-> ""]

like_review(review_likes) ==
    [likes |-> review_likes + 1, save |-> TRUE, message |-> "liked"]

unlike_review(review_likes) ==
    IF review_likes > 0
    THEN [likes |-> review_likes - 1, save |-> TRUE, message |-> "unliked"]
    ELSE [likes |-> review_likes, save |-> FALSE, message |-> "already 0"]

\* The handler of the route: POST is like, DELETE is unlike.
like_handler(target, op, n) ==
    CASE target = "carpool" /\ op = "like" -> like_carpool(n)
      [] target = "carpool" /\ op = "unlike" -> unlike_carpool(n)
      [] target = "review" /\ op = "like" -> like_review(n)
      [] target = "review" /\ op = "unlike" -> unlike_review(n)

\* A like or unlike request: seen is the likes value of the row when
\* get_object_or_404 loaded it, likes the value in the answer.
LikeIdle ==
    [pc |-> "idle", target |-> "", op |-> "", seen |-> 0, likes |-> 0,
     status |-> 0, message |-> ""]

NoneApplied == [t \in LikeTargets |-> [like |-> 0, unlike |-> 0]]

LikesInit ==
    /\ likes = <<>>
    /\ likeReq = [r \in Slots |-> LikeIdle]
    /\ applied = NoneApplied

\* Requests that found their row: the finished ones and those in flight.
LikeRequestsIssued ==
    LET Sum(f) == f["carpool"].like + f["carpool"].unlike
                  + f["review"].like + f["review"].unlike
    IN  Sum(applied) + Cardinality({r \in Slots : likeReq[r].pc = "loaded"})

\* create_carpool, create_review: the new row has likes = 0.
CreateLiked(t) ==
    /\ t \notin DOMAIN likes
    /\ likes' = likes @@ (t :> 0)
    /\ UNCHANGED <<likeReq, applied, loginVars, apiVars, user_info_response>>

\* get_object_or_404: the row is loaded, or the answer is 404.
LikeLoad(r, t, op) ==
    /\ likeReq[r].pc = "idle"
    /\ LikeRequestsIssued < MaxLikeRequests
    /\ IF t \in DOMAIN likes
       THEN /\ likeReq' = [likeReq EXCEPT ![r] =
                             [LikeIdle EXCEPT !.pc = "loaded", !.target = t,
                                              !.op = op, !.seen = likes[t]]]
            /\ UNCHANGED applied
       ELSE /\ likeReq' = [likeReq EXCEPT ![r] =
                             [LikeIdle EXCEPT !.pc = "done", !.target = t,
                                              !.op = op, !.status = 404]]
            /\ UNCHANGED applied
    /\ UNCHANGED <<likes, loginVars, apiVars, user_info_response>>

\* The rest of the handler: the attribute is changed, save() writes the
\* instance's value to the row, the answer carries the attribute.
LikeSave(r) ==
    /\ likeReq[r].pc = "loaded"
    /\ LET q == likeReq[r]
           h == like_handler(q.target, q.op, q.seen)
       IN  /\ likes' = IF h.save THEN [likes EXCEPT ![q.target] = h.likes] ELSE likes
           /\ likeReq' = [likeReq EXCEPT ![r] =
                            [q EXCEPT !.pc = "done", !.likes = h.likes,
                                      !.status = 200, !.message = h.message]]
           /\ applied' = [applied EXCEPT ![q.target][q.op] = @ + 1]
    /\ UNCHANGED <<loginVars, apiVars, user_info_response>>

\* The answer has gone out.
LikeClose(r) ==
    /\ likeReq[r].pc = "done"
    /\ likeReq' = [likeReq EXCEPT ![r] = LikeIdle]
    /\ UNCHANGED <<likes, applied, loginVars, apiVars, user_info_response>>

---------------------------------------------------------------------------
\* The collections and the profile response, before any request.

\* The answer to a collection request: the handler that served it, the
\* query it got, the argument it gave to order_by ("" when it did not
\* order), the status, the exception that left the handler ("" when none)
\* and the rows in the body.
NoAnswer ==
    [endpoint |-> "", query |-> [none |-> TRUE], order_by |-> "", status |-> 0, exc |-> "",
     rows |-> <<>>]

ApiInit ==
    /\ carpools = {}
    /\ reviews = {}
    /\ comments = {}
    /\ answer = NoAnswer

---------------------------------------------------------------------------
\* The carpool collection (carpools/api.py).  A string column is a
\* sequence of characters.

\* Carpool rows in the table.
MaxCarpools == 3

Departures == {<<"x", "S", "e">>, <<"B", "e">>}
Destinations == {<<"B">>, <<"s">>}
DepartureTimes == {1, 2}

\* CarpoolCreateSchema, as far as the list reads it.
CarpoolData ==
    [departure : Departures, destination : Destinations,
     departure_time : DepartureTimes]

\* The query parameters of the list; <<>> stands for a parameter that is
\* not given (None) or empty, which the handler does not tell apart.
DepartureQueries == {<<>>, <<"s", "E">>}
DestinationQueries == {<<>>, <<"b">>}
SortQueries == {"departure_time", "-departure_time", "created_at"}

lower(c) ==
    CASE c = "S" -> "s"
      [] c = "E" -> "e"
      [] c = "B" -> "b"
      [] OTHER -> c

\* column__icontains=needle
icontains(column, needle) ==
    LET v == [i \in 1..Len(column) |-> lower(column[i])]
        n == [i \in 1..Len(needle) |-> lower(needle[i])]
    IN  \E i \in 0..(Len(v) - Len(n)) : SubSeq(v, i + 1, i + Len(n)) = n

\* column__contains=needle
contains(column, needle) ==
    \E i \in 0..(Len(column) - Len(needle)) :
        SubSeq(column, i + 1, i + Len(needle)) = needle

\* if departure: (None and "" are false)
Given(parameter) == parameter # <<>>

\* The sequences of the rows of a set.
Sequenced(rows) ==
    {f \in [1..Cardinality(rows) -> rows] :
        \A i, j \in 1..Cardinality(rows) : i # j => f[i] # f[j]}

\* The sequences a query can return: order_by(sort) fixes the order of
\* rows that differ in departure_time, the database that of the others;
\* sort = "": no order_by.
order_by(rows, sort) ==
    {f \in Sequenced(rows) :
        \A i, j \in 1..Cardinality(rows) :
            i < j => CASE sort = "departure_time" ->
                            f[i].departure_time <= f[j].departure_time
                       [] sort = "-departure_time" ->
                            f[i].departure_time >= f[j].departure_time
                       [] OTHER -> TRUE}

\* A variant of list_carpools: the departure filter is case-sensitive.
list_carpools_contains(rows, departure, destination, sort) ==
    LET qs == {c \in rows :
                  /\ Given(departure) => contains(c.departure, departure)
                  /\ Given(destination) => icontains(c.destination, destination)}
        o == IF sort \in {"departure_time", "-departure_time"} THEN sort ELSE ""
    IN  [order_by |-> o, status |-> 200, exc |-> "", results |-> order_by(qs, o)]

\* list_carpools, the definition at line 40: the argument of order_by and
\* the sequences that list(qs) can be.
list_carpools(rows, departure, destination, sort) ==
    LET qs == {c \in rows :
                  /\ Given(departure) => icontains(c.departure, departure)
                  /\ Given(destination) => icontains(c.destination, destination)}
        o == IF sort \in {"departure_time", "-departure_time"} THEN sort ELSE ""
    IN  [order_by |-> o, status |-> 200, exc |-> "", results |-> order_by(qs, o)]

\* list_carpools, the definition at line 124: carpool.user of the first
\* row raises AttributeError (Carpool has author, not user).
list_carpools_by_created_at(rows) ==
    IF rows = {}
    THEN [order_by |-> "-created_at", status |-> 200, exc |-> "", results |-> {<<>>}]
    ELSE [order_by |-> "-created_at", status |-> 500, exc |-> "AttributeError",
          results |-> {<<>>}]

\* The operations registered for GET "" on the carpool router, in the
\* order of registration; the first one serves the request.
get_operations == <<"list_carpools", "list_carpools_by_created_at">>

find_operation(operations) == Head(operations)

\* The id the table gives its next row.
NextId(rows) ==
    IF rows = {} THEN 1
    ELSE 1 + CHOOSE m \in {c.id : c \in rows} : \A c \in rows : c.id <= m

\* Carpool.objects.create(**data.dict()): the next id, no author ("").
create_carpool(rows, data) ==
    rows \cup {[id |-> NextId(rows), departure |-> data.departure,
                destination |-> data.destination,
                departure_time |-> data.departure_time, author |-> ""]}

\* POST /carpools
CreateCarpool(data) ==
    /\ NextId(carpools) <= MaxCarpools
    /\ carpools' = create_carpool(carpools, data)
    /\ answer' = [NoAnswer EXCEPT !.endpoint = "create_carpool", !.status = 200]
    /\ UNCHANGED <<reviews, comments, loginVars, likeVars, user_info_response>>

\* GET /carpools
ListCarpools(departure, destination, sort) ==
    /\ LET served == find_operation(get_operations)
           out == IF served = "list_carpools"
                  THEN list_carpools(carpools, departure, destination, sort)
                  ELSE list_carpools_by_created_at(carpools)
       IN  \E result \in out.results :
              answer' = [endpoint |-> served,
                         query |-> [departure |-> departure,
                                    destination |-> destination, sort |-> sort],
                         order_by |-> out.order_by, status |-> out.status,
                         exc |-> out.exc, rows |-> result]
    /\ UNCHANGED <<carpools, reviews, comments, loginVars, likeVars,
                   user_info_response>>

---------------------------------------------------------------------------
\* The writes of the collections (carpools/api.py, reviews/api.py,
\* reviews/views.py).  A caller is the id of the user of the request, ""
\* for a request without one; an author is a user id, "" for none.

\* Review rows and review-comment rows in their tables.
MaxReviews == 1
MaxComments == 1

Titles == {"t1", "t2"}

CarpoolIds == 1..MaxCarpools
ReviewIds == 1..MaxReviews
CommentIds == 1..MaxComments

\* What a write handler leaves: the table and the status of the answer.
Written(rows, status) == [rows |-> rows, status |-> status]

\* update_carpool: every field of the body is set on the row.
update_carpool(rows, caller, carpool_id, data) ==
    IF \A c \in rows : c.id # carpool_id
    THEN Written(rows, 404)
    ELSE Written({IF c.id = carpool_id
                  THEN [c EXCEPT !.departure = data.departure,
                                 !.destination = data.destination,
                                 !.departure_time = data.departure_time]
                  ELSE c : c \in rows}, 200)

delete_carpool(rows, caller, carpool_id) ==
    IF \A c \in rows : c.id # carpool_id
    THEN Written(rows, 404)
    ELSE Written({c \in rows : c.id # carpool_id}, 200)

\* create_review (auth=django_auth): the author is the user of the session.
create_review(rows, caller, title) ==
    IF caller = ""
    THEN Written(rows, 401)
    ELSE Written(rows \cup {[id |-> NextId(rows), author |-> caller, title |-> title]},
                 200)

\* update_review with a title in the body.
update_review(rows, caller, review_id, title) ==
    IF \A v \in rows : v.id # review_id
    THEN Written(rows, 404)
    ELSE Written({IF v.id = review_id THEN [v EXCEPT !.title = title] ELSE v :
                     v \in rows}, 200)

delete_review(rows, caller, review_id) ==
    IF \A v \in rows : v.id # review_id
    THEN Written(rows, 404)
    ELSE Written({v \in rows : v.id # review_id}, 200)

\* CustomUser.objects.first(): the user with the least id, "" when there
\* is none.
first(users) ==
    LET ids == {u.id : u \in users}
    IN  IF users = {} THEN ""
        ELSE IntToStr(CHOOSE n \in 1..MaxKakaoId :
                         /\ IntToStr(n) \in ids
                         /\ \A m \in 1..(n - 1) : IntToStr(m) \notin ids)

\* create_comment: the author is CustomUser.objects.first(); without any
\* user the insert fails (author is not nullable).
create_comment(rows, review_rows, users, review_id) ==
    IF \A v \in review_rows : v.id # review_id
    THEN Written(rows, 404)
    ELSE IF first(users) = ""
    THEN Written(rows, 500)
    ELSE Written(rows \cup {[id |-> NextId(rows), review |-> review_id,
                             author |-> first(users)]}, 200)

\* delete_review_comment: the author test is made for a caller that is
\* authenticated.
delete_review_comment(rows, review_rows, caller, review_id, comment_id) ==
    IF \A v \in review_rows : v.id # review_id
    THEN Written(rows, 404)
    ELSE IF \A m \in rows : ~(m.id = comment_id /\ m.review = review_id)
    THEN Written(rows, 404)
    ELSE LET comment == CHOOSE m \in rows : m.id = comment_id
         IN  IF caller # "" /\ comment.author # caller
             THEN Written(rows, 403)
             ELSE Written(rows \ {comment}, 200)

\* The answer to a write.
WriteAnswer(endpoint, caller, id, status) ==
    [NoAnswer EXCEPT !.endpoint = endpoint, !.query = [caller |-> caller, id |-> id],
                     !.status = status]

\* PATCH /carpools/{carpool_id}
UpdateCarpool(caller, carpool_id, data) ==
    /\ LET w == update_carpool(carpools, caller, carpool_id, data)
       IN  /\ carpools' = w.rows
           /\ answer' = WriteAnswer("update_carpool", caller, carpool_id, w.status)
    /\ UNCHANGED <<reviews, comments, loginVars, likeVars, user_info_response>>

\* DELETE /carpools/{carpool_id}
DeleteCarpool(caller, carpool_id) ==
    /\ LET w == delete_carpool(carpools, caller, carpool_id)
       IN  /\ carpools' = w.rows
           /\ answer' = WriteAnswer("delete_carpool", caller, carpool_id, w.status)
    /\ UNCHANGED <<reviews, comments, loginVars, likeVars, user_info_response>>

\* POST /reviews
CreateReview(caller, title) ==
    /\ NextId(reviews) <= MaxReviews
    /\ LET w == create_review(reviews, caller, title)
       IN  /\ reviews' = w.rows
           /\ answer' = WriteAnswer("create_review", caller, 0, w.status)
    /\ UNCHANGED <<carpools, comments, loginVars, likeVars, user_info_response>>

\* PATCH /reviews/{review_id}
UpdateReview(caller, review_id, title) ==
    /\ LET w == update_review(reviews, caller, review_id, title)
       IN  /\ reviews' = w.rows
           /\ answer' = WriteAnswer("update_review", caller, review_id, w.status)
    /\ UNCHANGED <<carpools, comments, loginVars, likeVars, user_info_response>>

\* DELETE /reviews/{review_id}: the comments of the review go with it
\* (on_delete=CASCADE).
DeleteReview(caller, review_id) ==
    /\ LET w == delete_review(reviews, caller, review_id)
       IN  /\ reviews' = w.rows
           /\ comments' = IF w.status = 200
                          THEN {m \in comments : m.review # review_id}
                          ELSE comments
           /\ answer' = WriteAnswer("delete_review", caller, review_id, w.status)
    /\ UNCHANGED <<carpools, loginVars, likeVars, user_info_response>>

\* POST /reviews/{review_id}/comments
CreateComment(caller, review_id) ==
    /\ NextId(comments) <= MaxComments
    /\ LET w == create_comment(comments, reviews, store, review_id)
       IN  /\ comments' = w.rows
           /\ answer' = WriteAnswer("create_comment", caller, review_id, w.status)
    /\ UNCHANGED <<carpools, reviews, loginVars, likeVars, user_info_response>>

\* DELETE /{review_id}/comments/{comment_id}
DeleteReviewComment(caller, review_id, comment_id) ==
    /\ LET w == delete_review_comment(comments, reviews, caller, review_id, comment_id)
       IN  /\ comments' = w.rows
           /\ answer' = WriteAnswer("delete_review_comment", caller, comment_id,
                                    w.status)
    /\ UNCHANGED <<carpools, reviews, loginVars, likeVars, user_info_response>>

---------------------------------------------------------------------------
\* The review list (reviews/api.py), the rankings (rankings/api.py) and
\* the routes of the api (yeogida_backend/urls.py).

\* The names order_by and filter resolve on the models.
ReviewColumns ==
    {"id", "author", "title", "content", "region", "place", "likes", "views",
     "created_at"}
CustomUserColumns ==
    {"id", "nickname", "profile_image_url", "name", "email", "level",
     "review_count", "like_count", "badge", "is_active", "is_staff", "password",
     "last_login", "is_superuser"}

\* "": no searchType.
SearchTypes == {"", "title", "author"}
ReviewSortQueries == {"likes", "title"}
RankingSortQueries == {"level", "password", "popularity"}
OrderQueries == {"asc", "desc"}

\* list_reviews with a keyword that every title contains.  The author
\* search filters on author__username, which CustomUser does not have;
\* the loop reads r.author.username of every row.
list_reviews(rows, searchType, sortBy, order) ==
    LET o == IF sortBy \in {"created_at", "likes", "views"}
             THEN (IF order = "asc" THEN "" ELSE "-") \o sortBy
             ELSE ""
    IN  IF searchType = "author"
        THEN [order_by |-> "", status |-> 500, exc |-> "FieldError", results |-> {<<>>}]
        ELSE IF rows # {}
        THEN [order_by |-> o, status |-> 500, exc |-> "AttributeError",
              results |-> {<<>>}]
        ELSE [order_by |-> o, status |-> 200, exc |-> "", results |-> {<<>>}]

\* get_rankings: order_by gets the parameter as it came.  No code writes
\* the ranking columns, so every row has their defaults and the database
\* fixes the order.
get_rankings(users, sortBy, order) ==
    LET sort_field == IF order = "desc" THEN "-" \o sortBy ELSE sortBy
    IN  IF sortBy \notin CustomUserColumns
        THEN [order_by |-> sort_field, status |-> 500, exc |-> "FieldError",
              results |-> {<<>>}]
        ELSE [order_by |-> sort_field, status |-> 200, exc |-> "",
              results |-> Sequenced(users)]

\* GET /reviews
ListReviews(searchType, sortBy, order) ==
    /\ LET out == list_reviews(reviews, searchType, sortBy, order)
       IN  \E result \in out.results :
              answer' = [endpoint |-> "list_reviews",
                         query |-> [searchType |-> searchType, sortBy |-> sortBy,
                                    order |-> order],
                         order_by |-> out.order_by, status |-> out.status,
                         exc |-> out.exc, rows |-> result]
    /\ UNCHANGED <<carpools, reviews, comments, loginVars, likeVars,
                   user_info_response>>

\* GET /rankings
GetRankings(sortBy, order) ==
    /\ LET out == get_rankings(store, sortBy, order)
       IN  \E result \in out.results :
              answer' = [endpoint |-> "get_rankings",
                         query |-> [sortBy |-> sortBy, order |-> order],
                         order_by |-> out.order_by, status |-> out.status,
                         exc |-> out.exc, rows |-> result]
    /\ UNCHANGED <<carpools, reviews, comments, loginVars, likeVars,
                   user_info_response>>

\* The routers added to the api, and the operations of the auth router.
Routers == {"/carpools", "/courses", "/rankings", "/auth", "/users"}

auth_router ==
    {<<"GET", "/login/kakao/">>, <<"GET", "/kakao/callback/">>,
     <<"POST", "/kakao/login/process">>}

\* The refresh tokens a client can send: one the login has issued (its
\* subject is in a response), or one that is not valid.
RefreshTokens ==
    {"tampered", "expired"}
    \cup {"issued to " \o req[r].resp.sub :
             r \in {q \in Slots : req[q].resp.kind = "Tokens"}}

\* POST /auth/token/refresh: the auth router has no such operation, and no
\* other router is added that has.
TokenRefresh(token) ==
    /\ answer' =
          IF "/auth" \in Routers /\ <<"POST", "/token/refresh">> \in auth_router
          THEN [NoAnswer EXCEPT !.endpoint = "token_refresh",
                                !.query = [refresh |-> token], !.status = 200]
          ELSE [NoAnswer EXCEPT !.endpoint = "not found",
                                !.query = [refresh |-> token], !.status = 404]
    /\ UNCHANGED <<carpools, reviews, comments, loginVars, likeVars,
                   user_info_response>>

---------------------------------------------------------------------------
\* The state machine.

Idle == [pc |-> "idle", info |-> NoInfo, resp |-> NoResp]

Done(info, resp) == [pc |-> "done", info |-> info, resp |-> resp]

LoginInit ==
    /\ store = {}
    /\ req = [r \in Slots |-> Idle]

Init ==
    /\ LoginInit
    /\ LikesInit
    /\ ApiInit
    /\ user_info_response = Absent

\* POST kauth.kakao.com/oauth/token answers (or not).
TokenExchange(r) ==
    /\ req[r].pc = "idle"
    /\ \A q \in Slots : q < r => req[q].pc # "idle"
    /\ UNCHANGED <<store, likeVars, apiVars, user_info_response>>
    /\ \/ req' = [req EXCEPT ![r] = Done(NoInfo, Error(408, "ProviderTimeout"))]
       \/ \E st \in ProviderStatuses :
            req' = [req EXCEPT ![r] =
                        Done(NoInfo, Error(token_error_status(st), "ProviderRejected"))]
       \/ req' = [req EXCEPT ![r] = Done(NoInfo, Error(400, "ProviderResponseInvalid"))]
       \/ req' = [req EXCEPT ![r] = [Idle EXCEPT !.pc = "token"]]

\* GET kapi.kakao.com/v2/user/me answers (or not); the response is parsed.
ProfileFetch(r) ==
    /\ req[r].pc = "token"
    /\ UNCHANGED <<store, likeVars, apiVars, user_info_response>>
    /\ \/ req' = [req EXCEPT ![r] = Done(NoInfo, Error(408, "ProfileFetchTimeout"))]
       \/ req' = [req EXCEPT ![r] = Done(NoInfo, Error(400, "ProfileFetchFailed"))]
       \/ \E user_info \in UserInfos :
            IF parse_kakao_id(user_info).kakao_id = ""
            THEN req' = [req EXCEPT ![r] =
                            Done(parse_kakao_id(user_info), Error(400, "ProfileIncomplete"))]
            ELSE req' = [req EXCEPT ![r] =
                            [pc |-> "profile", info |-> parse_user_info(user_info),
                             resp |-> NoResp]]

\* The lookup, the update or the create, the active check and the tokens.
Reconcile(r) ==
    /\ req[r].pc = "profile"
    /\ LET out == login_from_lookup(store, req[r].info)
       IN  /\ store' = out.objects
           /\ req' = [req EXCEPT ![r] = Done(req[r].info, out.resp)]
    /\ UNCHANGED <<likeVars, apiVars, user_info_response>>

\* The response has gone out.
Close(r) ==
    /\ req[r].pc = "done"
    /\ req' = [req EXCEPT ![r] = Idle]
    /\ UNCHANGED <<store, likeVars, apiVars, user_info_response>>

\* The admin site (CustomUserAdmin): the add form, which validates the
\* unique fields.
AdminAdd ==
    /\ \E id \in AccountIds, nickname \in Nicknames, email \in Emails \cup {None} :
          LET rows == store \cup {[id |-> id, nickname |-> nickname, email |-> email,
                                   profile_image_url |-> None, is_active |-> TRUE]}
          IN  /\ \A u \in store : u.id # id
              /\ UniqueOk(rows)
              /\ store' = rows
    /\ UNCHANGED <<req, likeVars, apiVars, user_info_response>>

\* The change form: one field of one account is edited.
AdminChange ==
    /\ \E u \in store :
         \E w \in {[u EXCEPT !.nickname = v] : v \in Nicknames}
                  \cup {[u EXCEPT !.email = v] : v \in Emails \cup {None}}
                  \cup {[u EXCEPT !.is_active = ~u.is_active]} :
             /\ w # u
             /\ UniqueOk((store \ {u}) \cup {w})
             /\ store' = (store \ {u}) \cup {w}
    /\ UNCHANGED <<req, likeVars, apiVars, user_info_response>>

AdminDelete ==
    /\ \E u \in store : store' = store \ {u}
    /\ UNCHANGED <<req, likeVars, apiVars, user_info_response>>

Next ==
    \/ \E r \in Slots : TokenExchange(r)
    \/ \E r \in Slots : ProfileFetch(r)
    \/ \E r \in Slots : Reconcile(r)
    \/ \E r \in Slots : Close(r)
    \/ AdminAdd
    \/ AdminChange
    \/ AdminDelete

Spec == Init /\ [][Next]_vars

---------------------------------------------------------------------------
\* Properties of the login flow.

\* Request r takes the step from the parsed profile to its response: the
\* lookup, the update or create, the active check and the tokens.
ReconcileStep(r) == req[r].pc = "profile" /\ req'[r].pc = "done"

\* Request r's handler ends in this step.
EndStep(r) == req[r].pc # "done" /\ req'[r].pc = "done"

Account(objects, id) == {u \in objects : u.id = id}

\* The profile p can become a new Account: it has a nickname and its email,
\* if any, is not the email of an Account.
Creatable(objects, p) ==
    /\ Truthy(p.nickname)
    /\ ~(Truthy(p.email) /\ email_exists(objects, p.email))

\* The failures of the token exchange, the profile fetch and the parsing.
EarlyKinds ==
    {"ProviderTimeout", "ProviderRejected", "ProviderResponseInvalid",
     "ProfileFetchTimeout", "ProfileFetchFailed", "ProfileIncomplete"}

\* The request has ended, and not before the lookup.
FromStore(q) == q.pc = "done" /\ q.resp.kind \notin EarlyKinds

\* C1: the store never holds two Accounts with one id, and a login for an
\* unseen external id that can become an Account (nickname present, no
\* email collision) leaves exactly one Account with id = str(external id)
\* and every other Account as it was.
C1_OneAccountPerExternalId ==
    [][/\ \A u, w \in store' : u.id = w.id => u = w
       /\ \A r \in Slots :
            LET p == req[r].info
            IN  (/\ ReconcileStep(r)
                 /\ p.id # None
                 /\ Account(store, p.kakao_id) = {}
                 /\ Creatable(store, p))
                => /\ Cardinality(Account(store', Str(p.id))) = 1
                   /\ store' \ Account(store', Str(p.id)) = store]_vars

\* C2: a login whose email is the email of a different Account ends with
\* DuplicateEmail and writes nothing, whether or not the external id has an
\* Account of its own.
C2_DuplicateEmailRejected ==
    [][\A r \in Slots :
         LET p == req[r].info
         IN  (/\ ReconcileStep(r)
              /\ Truthy(p.email)
              /\ \E u \in store : u.email = p.email /\ u.id # p.kakao_id)
             => /\ req'[r].resp.kind = "DuplicateEmail"
                /\ req'[r].resp.sub = ""
                /\ store' = store]_vars

\* A stored field f of u is kept in w, or replaced by the non-empty,
\* different value the profile p supplies.
KeptOrSupplied(u, w, p, f) ==
    w[f] # u[f] => /\ Truthy(p[f])
                   /\ p[f] # u[f]
                   /\ w[f] = p[f]

\* C3: a login for an existing Account keeps the Account; email, nickname
\* and profile_image_url change only to a non-empty value of the profile
\* that differs from the stored one, and is_active does not change.
C3_PartialUpdate ==
    [][\A r \in Slots :
         ReconcileStep(r) =>
            \A u \in Account(store, req[r].info.kakao_id) :
               \E w \in store' :
                  /\ w.id = u.id
                  /\ KeptOrSupplied(u, w, req[r].info, "email")
                  /\ KeptOrSupplied(u, w, req[r].info, "nickname")
                  /\ KeptOrSupplied(u, w, req[r].info, "profile_image_url")
                  /\ w.is_active = u.is_active]_vars

\* C3 witness: a login that supplied no email and no profile image has
\* ended for an Account that has an email and another nickname.
C3_Witness ==
    \E r \in Slots :
       /\ FromStore(req[r])
       /\ ~Truthy(req[r].info.email)
       /\ ~Truthy(req[r].info.profile_image_url)
       /\ Truthy(req[r].info.nickname)
       /\ \E u \in Account(store, req[r].info.kakao_id) :
             /\ Truthy(u.email)
             /\ u.nickname # req[r].info.nickname

\* The profile p supplies nothing that differs from the stored Account u.
Unchanged(u, p) ==
    /\ Truthy(p.email) => p.email = u.email
    /\ Truthy(p.nickname) => p.nickname = u.nickname
    /\ Truthy(p.profile_image_url) => p.profile_image_url = u.profile_image_url

\* C4: a login for an existing active Account with an unchanged profile
\* writes nothing and returns a token pair for that Account.
C4_RepeatedLoginIdempotent ==
    [][\A r \in Slots :
         \A u \in Account(store, req[r].info.kakao_id) :
            (ReconcileStep(r) /\ u.is_active /\ Unchanged(u, req[r].info))
            => /\ store' = store
               /\ req'[r].resp.kind = "Tokens"
               /\ req'[r].resp.sub = u.id]_vars

\* C5: a login for an unseen external id without a nickname (and without
\* an email collision) ends with a 400 error body, creates no Account and
\* issues no tokens.
C5_NicknameRequired ==
    [][\A r \in Slots :
         LET p == req[r].info
         IN  (/\ ReconcileStep(r)
              /\ Account(store, p.kakao_id) = {}
              /\ ~Truthy(p.nickname)
              /\ ~(Truthy(p.email) /\ email_exists(store, p.email)))
             => /\ req'[r].resp.status = 400
                /\ req'[r].resp.detail
                /\ req'[r].resp.sub = ""
                /\ store' = store]_vars

C7_InactiveBlocked ==
    [][\A r \in Slots :
         (/\ ReconcileStep(r)
          /\ \E u \in Account(store, req[r].info.kakao_id) : ~u.is_active)
         => /\ req'[r].resp.kind = "AccountDisabled"
            /\ req'[r].resp.status = 403
            /\ req'[r].resp.sub = ""]_vars

\* C8: a request that ends with an error leaves the store as it was; the
\* failures of the provider calls and of the parsing end the request before
\* it reaches the lookup, and every request that ends earlier than the
\* lookup ends with one of them.
C8_ErrorsWriteNothing ==
    [][\A r \in Slots :
         EndStep(r) =>
            /\ req'[r].resp.kind # "Tokens" => store' = store
            /\ req'[r].resp.kind \in EarlyKinds <=> req[r].pc \in {"idle", "token"}]_vars

\* C8 witness: with Accounts in the store, one request has ended with an
\* error of the store stage and another with an error of a provider call.
C8_Witness ==
    /\ store # {}
    /\ \E r, q \in Slots :
          /\ FromStore(req[r])
          /\ req[r].resp.status >= 400
          /\ Account(store, req[r].info.kakao_id) # {}
          /\ req[q].pc = "done"
          /\ req[q].resp.kind \in EarlyKinds

\* C9: when a login for an unseen external id that can become an Account
\* reaches the store while another such login for the same id is in flight
\* at the same point (neither has created), the store holds exactly one
\* Account for that id afterwards.
C9_ConcurrentCreateOnce ==
    [][\A r, q \in Slots :
         LET p == req[r].info
         IN  (/\ r # q
              /\ ReconcileStep(r)
              /\ req[q].pc = "profile"
              /\ req[q].info.kakao_id = p.kakao_id
              /\ Creatable(store, req[q].info)
              /\ p.id # None
              /\ Account(store, p.kakao_id) = {}
              /\ Creatable(store, p))
             => Cardinality(Account(store', p.kakao_id)) = 1]_vars

\* C10: a request whose profile response carries no id does not get to the
\* lookup: it ends with ProfileIncomplete, status 400.
C10_MissingIdRejected ==
    \A r \in Slots :
       (req[r].pc \in {"profile", "done"} /\ req[r].info.id = None)
       => /\ req[r].pc = "done"
          /\ req[r].resp.kind = "ProfileIncomplete"
          /\ req[r].resp.status = 400

\* The response is a structured error of the given status: the body is an
\* ErrorDetail.
Structured(resp, status) == resp.status = status /\ resp.detail

\* C11: every failure of the login has its fixed status and a detail
\* string: the timeouts 408; a rejection by the provider (any status), a
\* token response without access_token, a failed profile fetch, a profile
\* without id, a duplicate email and a missing nickname 400; a disabled
\* Account 403; the unexpected and the storage errors 500.
C11_ErrorMapping ==
    \A r \in Slots :
       LET q == req[r]
       IN  (q.pc = "done" /\ q.resp.kind # "Tokens") =>
              /\ q.resp.kind \in {"ProviderTimeout", "ProfileFetchTimeout"}
                    => Structured(q.resp, 408)
              /\ q.resp.kind \in {"ProviderRejected", "ProviderResponseInvalid",
                                  "ProfileFetchFailed", "ProfileIncomplete",
                                  "DuplicateEmail"}
                    => Structured(q.resp, 400)
              /\ q.info.id = None => Structured(q.resp, 400)
              /\ q.resp.kind = "AccountDisabled" => Structured(q.resp, 403)
              /\ q.resp.status \in {408, 400, 403, 500}
              /\ q.resp.detail

---------------------------------------------------------------------------
\* The like and unlike requests on their own: rows are created, and up to
\* MaxLikeRequests requests load and save in any interleaving.

LikeOps == {"like", "unlike"}

NextLikes ==
    \/ \E t \in LikeTargets : CreateLiked(t)
    \/ \E r \in Slots, t \in LikeTargets, op \in LikeOps : LikeLoad(r, t, op)
    \/ \E r \in Slots : LikeSave(r)
    \/ \E r \in Slots : LikeClose(r)

SpecLikes == Init /\ [][NextLikes]_vars

\* Request r's handler returns in this step, having loaded the row.
LikeReturns(r) == likeReq[r].pc = "loaded" /\ likeReq'[r].pc = "done"

\* C12: the like count of a carpool and of a review is never negative; an
\* unlike that finds the count 0 answers 0 and writes nothing, so that the
\* count stays 0; and an unlike that follows a like (it loaded the count
\* the like wrote, and the row still has it) leaves the count the like had
\* loaded.
C12_LikesClamped ==
    [][/\ \A t \in DOMAIN likes' : likes'[t] >= 0
       /\ \A r \in Slots :
            LET q == likeReq[r]
            IN  (LikeReturns(r) /\ q.op = "unlike") =>
                   /\ q.seen = 0 => /\ likes' = likes
                                    /\ likeReq'[r].likes = 0
                   /\ (q.seen = 0 /\ likes[q.target] = 0) => likes'[q.target] = 0
                   /\ \A l \in Slots :
                        (/\ likeReq[l].pc = "done"
                         /\ likeReq[l].op = "like"
                         /\ likeReq[l].status = 200
                         /\ likeReq[l].target = q.target
                         /\ likeReq[l].likes = q.seen
                         /\ likes[q.target] = q.seen)
                        => likes'[q.target] = likeReq[l].seen]_vars

\* C12 witness: on one row a like and then an unlike have returned, the
\* unlike having loaded what the like wrote, and on the other row an unlike
\* has returned that found the count 0.
C12_Witness ==
    \E l, u \in Slots :
       /\ likeReq[l].pc = "done" /\ likeReq[l].op = "like" /\ likeReq[l].status = 200
       /\ likeReq[u].pc = "done" /\ likeReq[u].op = "unlike" /\ likeReq[u].status = 200
       /\ likeReq[u].target = likeReq[l].target
       /\ likeReq[u].seen = likeReq[l].likes
       /\ likes[likeReq[u].target] = likeReq[l].seen
       /\ \E t \in DOMAIN likes : applied[t].unlike > 0 /\ applied[t].like = 0

\* The counts that a likes and b unlikes, one after another in some order,
\* leave on a row that had the count n.
RECURSIVE SerialCounts(_, _, _)
SerialCounts(n, a, b) ==
    (IF a = 0 /\ b = 0 THEN {n} ELSE {})
    \cup (IF a > 0 THEN SerialCounts(n + 1, a - 1, b) ELSE {})
    \cup (IF b > 0 THEN SerialCounts(IF n > 0 THEN n - 1 ELSE n, a, b - 1) ELSE {})

\* C20: when no like or unlike request on a row is between its load and
\* its save, the row's count is one that the finished requests on the row
\* give when they run one after another in some order.
C20_NoLostUpdate ==
    \A t \in DOMAIN likes :
       (\A r \in Slots : ~(likeReq[r].pc = "loaded" /\ likeReq[r].target = t))
       => likes[t] \in SerialCounts(0, applied[t].like, applied[t].unlike)

---------------------------------------------------------------------------
\* The reads of the collections: carpools are created and listed, reviews
\* and rankings are listed, a token refresh is asked for.

NextApi ==
    \/ \E data \in CarpoolData : CreateCarpool(data)
    \/ \E departure \in DepartureQueries, destination \in DestinationQueries,
          sort \in SortQueries : ListCarpools(departure, destination, sort)
    \/ \E searchType \in SearchTypes, sortBy \in ReviewSortQueries,
          order \in OrderQueries : ListReviews(searchType, sortBy, order)
    \/ \E sortBy \in RankingSortQueries, order \in OrderQueries :
          GetRankings(sortBy, order)
    \/ \E token \in RefreshTokens : TokenRefresh(token)

SpecApi == Init /\ [][NextApi]_vars

\* C13: a refresh request with a refresh token the login issued is
\* answered with an access token for the token's subject; one with a
\* tampered or expired token is answered InvalidOrExpiredToken (401) and
\* the store is left alone.
C13_RefreshKeepsSubject ==
    [][\A token \in RefreshTokens :
         (answer' # answer /\ answer'.query = [refresh |-> token]) =>
            /\ answer'.endpoint = "token_refresh"
            /\ token \in {"tampered", "expired"} => answer'.status = 401
            /\ token \notin {"tampered", "expired"} => answer'.status = 200
            /\ store' = store]_vars

\* The sort values each list accepts.
CarpoolSorts == {"departure_time", "-departure_time"}
ReviewSorts == {"created_at", "likes", "views"}
RankingSorts == {"level", "review_count", "like_count"}

\* C15: a list request whose sort value is not one the list accepts is
\* answered without that value in the ordering (no order_by, or the
\* default one) and without an exception caused by it.
C15_UnknownSortNotApplied ==
    /\ (answer.endpoint \in {"list_carpools", "list_carpools_by_created_at"}
        /\ answer.query.sort \notin CarpoolSorts)
       => answer.order_by \in {"", "departure_time"} /\ answer.exc = ""
    /\ (answer.endpoint = "list_reviews" /\ answer.query.sortBy \notin ReviewSorts
        /\ answer.query.searchType = "")
       => answer.order_by \in {"", "-created_at"} /\ answer.exc = ""
    /\ (answer.endpoint = "get_rankings" /\ answer.query.sortBy \notin RankingSorts)
       => answer.order_by \in {"", "-level"} /\ answer.exc = ""

\* The same letter, in either case.
SameLetter(a, b) ==
    a = b \/ {a, b} \in {{"S", "s"}, {"E", "e"}, {"B", "b"}, {"X", "x"}}

\* The string has an occurrence of d, letter case aside.
ContainsIgnoringCase(string, d) ==
    \E i \in 1..Len(string) :
       /\ i + Len(d) - 1 <= Len(string)
       /\ \A j \in 1..Len(d) : SameLetter(string[i + j - 1], d[j])

\* The rows of the answer.
Returned == {answer.rows[i] : i \in 1..Len(answer.rows)}

\* C16: GET /carpools with departure = D and sort = -departure_time is
\* answered 200 with the carpools whose departure contains D, letter case
\* aside, and whose destination contains the destination parameter when
\* one is given: each of them once, no other row, later departure_time
\* first.
C16_FilteredAndSorted ==
    LET q == answer.query
    IN  (/\ answer.endpoint \in {"list_carpools", "list_carpools_by_created_at"}
         /\ q.departure # <<>>
         /\ q.sort = "-departure_time")
        => /\ answer.status = 200
           /\ Returned =
                 {c \in carpools :
                     /\ ContainsIgnoringCase(c.departure, q.departure)
                     /\ q.destination # <<>> =>
                           ContainsIgnoringCase(c.destination, q.destination)}
           /\ Len(answer.rows) = Cardinality(Returned)
           /\ \A i, j \in 1..Len(answer.rows) :
                 i < j => answer.rows[i].departure_time >= answer.rows[j].departure_time

\* C16 witness: the list has answered with two carpools of different
\* departure_time that match the departure parameter only when letter
\* case is ignored, while the table holds a carpool that does not match.
C16_Witness ==
    /\ answer.endpoint = "list_carpools"
    /\ answer.query.sort = "-departure_time"
    /\ answer.query.departure = <<"s", "E">>
    /\ Len(answer.rows) = 2
    /\ answer.rows[1].departure_time > answer.rows[2].departure_time
    /\ \E c \in carpools : c \notin Returned

\* C14: a login request that has ended has ended with one response: the
\* token pair, or a structured error that carries a detail string; none
\* has ended with an exception that left the handler, and one that ended
\* on a provider timeout has the 408 of the timeout.
C14_OneStructuredResponse ==
    \A r \in Slots :
       req[r].pc = "done" =>
          /\ \/ req[r].resp.kind = "Tokens" /\ req[r].resp.sub # ""
             \/ /\ req[r].resp.kind # "Tokens"
                /\ req[r].resp.detail
                /\ req[r].resp.sub = ""
          /\ req[r].resp.kind # "Unhandled"
          /\ req[r].resp.kind \in {"ProviderTimeout", "ProfileFetchTimeout"}
                => req[r].resp.status = 408

---------------------------------------------------------------------------
\* The writes of the collections, by callers that are users of the store
\* or no user at all.

\* The admin site has added an Account for every provider id.
Registered ==
    {[id |-> id, nickname |-> PyStr("Jo"), email |-> None,
      profile_image_url |-> None, is_active |-> TRUE] : id \in AccountIds}

InitWrites ==
    /\ store = Registered
    /\ req = [r \in Slots |-> Idle]
    /\ LikesInit
    /\ ApiInit
    /\ user_info_response = Absent

Callers == {""} \cup {u.id : u \in store}

\* The bodies of the carpool writes.
WriteData ==
    {d \in CarpoolData : d.departure = <<"B", "e">> /\ d.destination = <<"B">>}

NextWrites ==
    \/ \E data \in WriteData : CreateCarpool(data)
    \/ \E caller \in Callers, id \in CarpoolIds, data \in WriteData :
          UpdateCarpool(caller, id, data)
    \/ \E caller \in Callers, id \in CarpoolIds : DeleteCarpool(caller, id)
    \/ \E caller \in Callers, title \in Titles : CreateReview(caller, title)
    \/ \E caller \in Callers, id \in ReviewIds, title \in Titles :
          UpdateReview(caller, id, title)
    \/ \E caller \in Callers, id \in ReviewIds : DeleteReview(caller, id)
    \/ \E caller \in Callers, id \in ReviewIds : CreateComment(caller, id)
    \/ \E caller \in Callers, id \in ReviewIds, comment_id \in CommentIds :
          DeleteReviewComment(caller, id, comment_id)

SpecWrites == InitWrites /\ [][NextWrites]_vars

\* The caller of the request answered in this step is the author of the row.
ByAuthor(row) == answer'.query.caller # "" /\ answer'.query.caller = row.author

\* C17: a carpool, a review or a comment is changed or deleted only by a
\* request of its author (a comment also goes when its review is deleted
\* by the review's author); a request of any other caller, also one
\* without a user, leaves the row as it is.
C17_OwnerScopedWrites ==
    [][/\ \A c \in carpools : c \notin carpools' => ByAuthor(c)
       /\ \A v \in reviews : v \notin reviews' => ByAuthor(v)
       /\ \A m \in comments :
             m \notin comments' =>
                \/ ByAuthor(m)
                \/ \E v \in reviews : v.id = m.review /\ v \notin reviews' /\ ByAuthor(v)
      ]_vars

\* C18: a login for an existing Account whose is_active is false leaves
\* the Account with is_active true in the store, together with the profile
\* fields the login changed, also when it changed none.
C18_InactiveReactivated ==
    [][\A r \in Slots :
         \A u \in Account(store, req[r].info.kakao_id) :
            (ReconcileStep(r) /\ ~u.is_active) =>
               \E w \in Account(store', u.id) :
                  /\ w.is_active
                  /\ \A f \in {"email", "nickname", "profile_image_url"} :
                        KeptOrSupplied(u, w, req[r].info, f)]_vars

---------------------------------------------------------------------------
\* The parsing of one profile response, kept as it arrived, and the logins
\* that use it.

InitNormalize ==
    /\ store = Registered
    /\ req = [r \in Slots |-> Idle]
    /\ LikesInit
    /\ ApiInit
    /\ user_info_response \in UserInfos

\* The profile request of r has answered with user_info_response: the
\* handler parses it.
Normalize(r) ==
    /\ req[r].pc = "idle"
    /\ req' = [req EXCEPT ![r] =
                 IF parse_kakao_id(user_info_response).kakao_id = ""
                 THEN Done(parse_kakao_id(user_info_response),
                           Error(400, "ProfileIncomplete"))
                 ELSE [pc |-> "profile", info |-> parse_user_info(user_info_response),
                       resp |-> NoResp]]
    /\ UNCHANGED <<store, likeVars, apiVars, user_info_response>>

NextNormalize ==
    \/ \E r \in Slots : Normalize(r)
    \/ \E r \in Slots : Reconcile(r)

SpecNormalize == InitNormalize /\ [][NextNormalize]_vars

\* The provider says the user has agreed to share the field.
Granted(raw, f) ==
    IF f = "email"
    THEN raw.has_email = PyBool(TRUE) /\ raw.email_needs_agreement = PyBool(FALSE)
    ELSE raw.profile_needs_agreement = PyBool(FALSE)

\* The request has parsed the whole profile.
Parsed(q) == q.pc = "profile" \/ (q.pc = "done" /\ q.resp.kind # "ProfileIncomplete")

\* C19: the parsed profile has an email only when has_email is true and
\* email_needs_agreement is false, a nickname and an image only when
\* profile_needs_agreement is false, a missing flag counting as no consent;
\* a field it has is the one the provider sent, and no Account gets a
\* value for a field without consent.
C19_ConsentGatesFields ==
    /\ \A r \in Slots, f \in {"email", "nickname", "profile_image_url"} :
          (Parsed(req[r]) /\ req[r].info[f] # None) =>
             /\ Granted(user_info_response, f)
             /\ req[r].info[f] = user_info_response[f]
    /\ \A u \in store, w \in Registered :
          \A f \in {"email", "nickname", "profile_image_url"} :
             (u.id = w.id /\ u[f] # w[f]) =>
                Granted(user_info_response, f) /\ u[f] = user_info_response[f]

\* C19 witness: a login has ended for the Account of a profile that came
\* with an email but without the email consent flag and with a nickname
\* and the profile consent: the parsed profile has the nickname and no
\* email.
C19_Witness ==
    \E r \in Slots :
       /\ req[r].pc = "done"
       /\ Parsed(req[r])
       /\ Account(store, req[r].info.kakao_id) # {}
       /\ user_info_response.has_email = PyBool(TRUE)
       /\ user_info_response.email_needs_agreement = Absent
       /\ user_info_response.email # Absent
       /\ req[r].info.email = None
       /\ Granted(user_info_response, "nickname")
       /\ req[r].info.nickname = PyStr("Jo")

====
